---- MODULE Spec2Model ----
(***************************************************************************)
(* twopoint: encrypted UDP messaging between two endpoints.                *)
(*                                                                         *)
(* The model has two layers.                                               *)
(*   - The crypto engine (src/src/crypto.rs): a key-derived cipher and a   *)
(*     ChaCha8 generator; encrypt/decrypt are operators on byte sequences. *)
(*     AES-128-GCM is modelled by its structure: a keystream derived from  *)
(*     (key, nonce) XORed onto the plaintext, and a 16-byte tag computed   *)
(*     over (key, nonce, ciphertext).                                      *)
(*   - The peer (src/src/peer.rs): a handle holding a reference to a UDP   *)
(*     socket and its own crypto engine.  std::net::UdpSocket is modelled  *)
(*     with the semantics of a Linux datagram socket bound on loopback:    *)
(*     connect() only sets the destination/filter (daddr, dport); a        *)
(*     connect to 0.0.0.0:0 leaves the socket "established" with           *)
(*     daddr = own address and dport = 0; getpeername fails with ENOTCONN  *)
(*     when dport = 0; inbound datagrams are filtered when they arrive,    *)
(*     not when they are read.  Delivery on loopback is immediate.         *)
(*     Errors the transport reports asynchronously (a pending ICMP error,  *)
(*     an interrupting signal) occur in WireSpec only, as an input of the  *)
(*     send or recv call.                                                  *)
(***************************************************************************)
EXTENDS Integers, Sequences, FiniteSets, TLC

VARIABLES
  peers,    \* sequence of Peer handles: [socket, crypto]
  sock,     \* per UDP socket: connection filter, timeouts, receive queue
  entropy,  \* number of seeds the OS entropy source has handed out
  sent,     \* number of send() calls made so far
  hist,     \* per socket: the last connect/disconnect call (observation only)
  switch,   \* the server's change of correspondent (observation only)
  last      \* outcome of the most recent send/recv/encrypt/decrypt call

vars == <<peers, sock, entropy, sent, hist, switch, last>>

(***************************************************************************)
(* Bounds                                                                  *)
(***************************************************************************)
MaxHandles == 4   \* Peer handles alive at once (3 peers + clones)
MaxSends == 2     \* send() calls in one behaviour
MaxCrypt == 3     \* encrypt/decrypt calls in one behaviour of CryptoSpec
MaxTamper == 1    \* encrypt calls in one behaviour of TamperSpec

(***************************************************************************)
(* Bytes and byte strings                                                  *)
(***************************************************************************)
Min(a, b) == IF a < b THEN a ELSE b

RECURSIVE BitXor(_, _)
BitXor(a, b) ==
  IF a = 0 THEN b
  ELSE IF b = 0 THEN a
  ELSE ((a + b) % 2) + 2 * BitXor(a \div 2, b \div 2)

Zeros(n) == [i \in 1..n |-> 0]

Bits == 0..7

RECURSIVE Pow2(_)
Pow2(b) == IF b = 0 THEN 1 ELSE 2 * Pow2(b - 1)

\* buffer with bit b of byte i inverted
FlipBitOf(buffer, i, b) == [buffer EXCEPT ![i] = BitXor(@, Pow2(b))]

\* position-weighted checksum of a byte string; every weight is odd, so a
\* change of any single byte changes the sum
RECURSIVE WSumTo(_, _)
WSumTo(s, n) ==
  IF n = 0 THEN 0 ELSE ((2 * n - 1) * s[n] + WSumTo(s, n - 1)) % 256

WSum(s) == WSumTo(s, Len(s))

(***************************************************************************)
(* Keys (src/src/key.rs)                                                   *)
(***************************************************************************)
KeyA == [i \in 1..16 |-> (37 * i + 90) % 256]
KeyB == [i \in 1..16 |-> (11 * i + 3) % 256]

\* the value of an ASCII hex digit, -1 for any other character
HexVal(c) ==
  IF c >= 48 /\ c <= 57 THEN c - 48
  ELSE IF c >= 97 /\ c <= 102 THEN c - 87
  ELSE IF c >= 65 /\ c <= 70 THEN c - 55
  ELSE -1

\* hex::decode(s): an odd length is refused before any character is looked at
HexDecode(s) ==
  IF Len(s) % 2 # 0
  THEN [ok |-> FALSE, err |-> "OddLength", bytes |-> << >>]
  ELSE IF \E i \in 1..Len(s) : HexVal(s[i]) = -1
  THEN [ok |-> FALSE, err |-> "InvalidHexCharacter", bytes |-> << >>]
  ELSE [ok |-> TRUE, err |-> "none",
        bytes |-> [i \in 1..(Len(s) \div 2) |->
                     16 * HexVal(s[2 * i - 1]) + HexVal(s[2 * i])]]

\* impl TryFrom<&[u8]> for Key
KeyTryFrom(slice) ==
  IF Len(slice) = 16
  THEN [ok |-> TRUE, err |-> "none", detail |-> "none", key |-> slice]
  ELSE [ok |-> FALSE, err |-> "InvalidLength", detail |-> "none", key |-> << >>]

\* impl From<hex::FromHexError> for InvalidKeyError
KeyFromStrHexErr(d) ==
  [ok |-> FALSE, err |-> "InvalidHex", detail |-> d.err, key |-> << >>]

\* impl FromStr for Key
KeyFromStr(s) ==
  LET d == HexDecode(s)
  IN  IF d.ok THEN KeyTryFrom(d.bytes) ELSE KeyFromStrHexErr(d)

(***************************************************************************)
(* Crypto engine (src/src/crypto.rs)                                       *)
(***************************************************************************)
TAG_SIZE == 16
NONCE_SIZE == 12
\* a length check that only makes room for the tag
MinimumBufferLengthTagOnly == TAG_SIZE

MINIMUM_BUFFER_LENGTH == TAG_SIZE + NONCE_SIZE

\* ChaCha8Rng::from_os_rng(): a generator keyed by a seed, at position 0
FromOsRng(seed) == [seed |-> seed, pos |-> 0]

\* the k-th output byte of the generator seeded with seed
RngByte(seed, k) == (seed * 97 + k * 57 + 11) % 256

\* Aes128Gcm::generate_nonce_with_rng: the next 12 bytes of the generator
GenerateNonce(rng) ==
  [i \in 1..NONCE_SIZE |-> RngByte(rng.seed, rng.pos * NONCE_SIZE + i)]

RngAdvance(rng) == [rng EXCEPT !.pos = @ + 1]

\* Aes128Gcm::new(key): the cipher context is a pure function of the key
CipherNew(key) == [ks |-> WSum(key)]

\* CTR keystream byte i under (cipher, nonce)
KeyStream(cipher, nonce, i) == (cipher.ks * 3 + WSum(nonce) * 5 + 7 * i) % 256

ApplyKeyStream(cipher, nonce, data) ==
  [i \in 1..Len(data) |-> BitXor(data[i], KeyStream(cipher, nonce, i))]

\* a tag that does not cover the ciphertext
GcmTagNoData(cipher, nonce, ct) ==
  LET base == (cipher.ks + 3 * WSum(nonce)) % 256
  IN  [j \in 1..TAG_SIZE |-> (base * (2 * j + 1) + j * j) % 256]

\* a tag that does not depend on the key
GcmTagUnkeyed(cipher, nonce, ct) ==
  LET base == (3 * WSum(nonce) + 5 * WSum(ct) + Len(ct)) % 256
  IN  [j \in 1..TAG_SIZE |-> (base * (2 * j + 1) + j * j) % 256]

\* GCM tag over (cipher, nonce, ciphertext), no associated data
GcmTag(cipher, nonce, ct) ==
  LET base == (cipher.ks + 3 * WSum(nonce) + 5 * WSum(ct) + Len(ct)) % 256
  IN  [j \in 1..TAG_SIZE |-> (base * (2 * j + 1) + j * j) % 256]

\* cipher.encrypt_in_place(nonce, [], buffer): ciphertext || tag
EncryptInPlace(cipher, nonce, buffer) ==
  LET ct == ApplyKeyStream(cipher, nonce, buffer)
  IN  ct \o GcmTag(cipher, nonce, ct)

\* cipher.decrypt_in_place(nonce, [], buffer): the tag is checked first; on a
\* mismatch the buffer is left as it was
DecryptInPlace(cipher, nonce, buffer) ==
  IF Len(buffer) < TAG_SIZE THEN [ok |-> FALSE, buf |-> buffer]
  ELSE LET n   == Len(buffer) - TAG_SIZE
           ct  == SubSeq(buffer, 1, n)
           tag == SubSeq(buffer, n + 1, Len(buffer))
       IN  IF tag = GcmTag(cipher, nonce, ct)
           THEN [ok |-> TRUE, buf |-> ApplyKeyStream(cipher, nonce, ct)]
           ELSE [ok |-> FALSE, buf |-> buffer]

\* Crypto::new(key), given the seed the OS entropy source returns
CryptoNew(key, seed) == [cipher |-> CipherNew(key), csprng |-> FromOsRng(seed)]

\* buffer.extend_from_slice(nonce): ciphertext || tag || nonce
ExtendNonceFirst(sealed, nonce) == nonce \o sealed

ExtendFromSlice(sealed, nonce) == sealed \o nonce

\* Crypto::encrypt: result, new buffer, new engine, and the nonce drawn
Encrypt(crypto, buffer) ==
  LET nonce == GenerateNonce(crypto.csprng)
  IN  [ok     |-> TRUE,
       buf    |-> ExtendFromSlice(EncryptInPlace(crypto.cipher, nonce, buffer), nonce),
       crypto |-> [crypto EXCEPT !.csprng = RngAdvance(@)],
       nonce  |-> nonce]

\* the part of the buffer decrypt takes as the nonce
NonceOfFront(buffer) == SubSeq(buffer, 1, NONCE_SIZE)

NonceOf(buffer) == SubSeq(buffer, Len(buffer) - NONCE_SIZE + 1, Len(buffer))

\* Crypto::decrypt: result and new buffer (the engine is not changed)
Decrypt(crypto, buffer) ==
  IF Len(buffer) < MINIMUM_BUFFER_LENGTH
  THEN [ok |-> FALSE, buf |-> buffer, cipherCalled |-> FALSE]
  ELSE LET nonce == NonceOf(buffer)
           rest  == SubSeq(buffer, 1, Len(buffer) - NONCE_SIZE)
           r     == DecryptInPlace(crypto.cipher, nonce, rest)
       IN  [ok |-> r.ok, buf |-> r.buf, cipherCalled |-> TRUE]

\* impl Clone for Crypto, given the seed the OS entropy source returns
CryptoCloneRngCopy(csprng, seed) == csprng

CryptoCloneRng(csprng, seed) == FromOsRng(seed)

CryptoClone(crypto, seed) ==
  [cipher |-> crypto.cipher, csprng |-> CryptoCloneRng(crypto.csprng, seed)]

(***************************************************************************)
(* Addresses and error kinds (src/src/util.rs)                             *)
(***************************************************************************)
SocketAddrV4(ip, port) == [v |-> "V4", ip |-> ip, port |-> port]

\* to_unspecified: the unspecified address of the same IP version, port 0
to_unspecified(addr) ==
  IF addr.v = "V4" THEN [v |-> "V4", ip |-> "0.0.0.0", port |-> 0]
  ELSE [v |-> "V6", ip |-> "::", port |-> 0]

\* is_unspecified: looks at the IP only
is_unspecified(addr) ==
  IF addr.v = "V4" THEN addr.ip = "0.0.0.0" ELSE addr.ip = "::"

\* a classification that leaves out the interrupted kind
can_retry_blocking(kind) == kind \in {"WouldBlock", "TimedOut"}

can_retry(kind) == kind \in {"WouldBlock", "TimedOut", "Interrupted"}

can_reconnect(kind) ==
  \/ can_retry(kind)
  \/ kind \in {"ConnectionReset", "ConnectionAborted", "ConnectionRefused",
               "NotConnected", "NetworkDown", "AddrInUse", "AddrNotAvailable",
               "HostUnreachable", "NetworkUnreachable", "BrokenPipe",
               "UnexpectedEof"}

\* io::Error::from(CryptoError)
CryptoErrorKind == "Other"

\* io::Error::from(InvalidKeyError)
InvalidKeyErrorKind == "InvalidInput"

\* the variants of std::io::ErrorKind
ErrorKinds ==
  {"NotFound", "PermissionDenied", "ConnectionRefused", "ConnectionReset",
   "HostUnreachable", "NetworkUnreachable", "ConnectionAborted", "NotConnected",
   "AddrInUse", "AddrNotAvailable", "NetworkDown", "BrokenPipe", "AlreadyExists",
   "WouldBlock", "NotADirectory", "IsADirectory", "DirectoryNotEmpty",
   "ReadOnlyFilesystem", "StaleNetworkFileHandle", "InvalidInput", "InvalidData",
   "TimedOut", "WriteZero", "StorageFull", "NotSeekable", "QuotaExceeded",
   "FileTooLarge", "ResourceBusy", "ExecutableFileBusy", "Deadlock",
   "CrossesDevices", "TooManyLinks", "InvalidFilename", "ArgumentListTooLong",
   "Interrupted", "Unsupported", "UnexpectedEof", "OutOfMemory", "Other",
   "Uncategorized"}

None == [some |-> FALSE, addr |-> SocketAddrV4("0.0.0.0", 0)]
Some(addr) == [some |-> TRUE, addr |-> addr]

(***************************************************************************)
(* The UDP sockets the peers are built on                                  *)
(***************************************************************************)
Sockets == {1, 2, 3}

\* the peer that changes correspondent (the server of the tests in lib.rs)
Server == 1

\* socket.local_addr(): every socket is bound on loopback, to its own port
LocalAddrOf(s) == SocketAddrV4("127.0.0.1", 4000 + s)

\* the key each peer is constructed with: peers 1 and 2 share a key
KeyOf(s) == IF s = 3 THEN KeyB ELSE KeyA

Timeouts == {"None", "Some"}
\* plaintexts given to the crypto engine, and the message the peers send
Plaintexts == {<< >>, <<104>>, <<104, 105>>}
Messages == {<<104, 105>>}
RecvLens == {29, 40}

\* UdpSocket::bind: not connected, blocking, empty receive queue
SocketBind ==
  [connected |-> FALSE, daddr |-> "0.0.0.0", dport |-> 0,
   rto |-> "None", wto |-> "None", rxq |-> << >>]

\* socket.connect(addr): sets the destination and the inbound filter; an
\* unspecified destination IP is replaced by the socket's own source address
SocketConnect(sk, local, addr) ==
  [sk EXCEPT !.connected = TRUE,
             !.daddr = IF is_unspecified(addr) THEN local.ip ELSE addr.ip,
             !.dport = addr.port]

\* socket.peer_addr(): ENOTCONN unless connected to a non-zero port
SocketPeerAddr(sk) ==
  IF sk.connected /\ sk.dport # 0
  THEN [ok |-> TRUE, addr |-> SocketAddrV4(sk.daddr, sk.dport)]
  ELSE [ok |-> FALSE, addr |-> SocketAddrV4("0.0.0.0", 0)]

\* the inbound filter of a socket, applied when a datagram arrives
SocketAcceptsAny(sk, src) == TRUE

SocketAccepts(sk, src) ==
  \/ ~sk.connected
  \/ /\ sk.daddr = src.ip
     /\ sk.dport = 0 \/ sk.dport = src.port

\* socket.send(buf) on a socket: the error kind, or "Ok"
\* (EDESTADDRREQ has no ErrorKind of its own)
SocketSendKind(sk) == IF sk.connected THEN "Ok" ELSE "Uncategorized"

\* the socket a datagram sent to (ip, port) is routed to, if any
RouteTo(ip, port) == {s \in Sockets : LocalAddrOf(s) = SocketAddrV4(ip, port)}

(***************************************************************************)
(* Peer (src/src/peer.rs): observers                                       *)
(***************************************************************************)
SocketOf(h) == peers[h].socket

local_addr(h) == LocalAddrOf(SocketOf(h))

\* Peer::remote_addr_optional, given what socket.peer_addr() returns
RemoteAddrOptionalOf(r) ==
  IF r.ok
  THEN IF ~is_unspecified(r.addr) THEN Some(r.addr) ELSE None
  ELSE None

\* a fallback that is always the IPv4 wildcard
RemoteAddrFallbackV4(local) == SocketAddrV4("0.0.0.0", 0)

\* the address remote_addr falls back to
RemoteAddrFallback(local) == to_unspecified(local)

\* Peer::remote_addr, given what socket.peer_addr() and local_addr() return
RemoteAddrOf(r, local) ==
  IF RemoteAddrOptionalOf(r).some THEN RemoteAddrOptionalOf(r).addr
  ELSE RemoteAddrFallback(local)

remote_addr_optional(h) == RemoteAddrOptionalOf(SocketPeerAddr(sock[SocketOf(h)]))

remote_addr(h) == RemoteAddrOf(SocketPeerAddr(sock[SocketOf(h)]), local_addr(h))

read_timeout(h) == sock[SocketOf(h)].rto
write_timeout(h) == sock[SocketOf(h)].wto

Handles == 1..Len(peers)

ServerHandles == {h \in Handles : SocketOf(h) = Server}

(***************************************************************************)
(* Records of what happened (observation only)                             *)
(***************************************************************************)
NoDatagram ==
  [some |-> FALSE, src |-> SocketAddrV4("0.0.0.0", 0), data |-> << >>,
   pt |-> << >>, cipher |-> CipherNew(KeyA), h |-> 0, dstPeer |-> None,
   dstCall |-> "none", orig |-> << >>, forged |-> "none"]

NoLast ==
  [op |-> "none", h |-> 0, kind |-> "Ok", arg |-> << >>, buf |-> << >>,
   dg |-> NoDatagram, peer |-> None, rto |-> "None", fromPeer |-> FALSE,
   stale |-> FALSE, switched |-> FALSE, nonce |-> << >>, cipherCalled |-> FALSE,
   tamper |-> "none", cap |-> 0, len |-> 0, decrypted |-> FALSE, orig |-> << >>,
   err |-> "none", detail |-> "none", retry |-> FALSE, reconnect |-> FALSE,
   local |-> SocketAddrV4("0.0.0.0", 0), addr |-> SocketAddrV4("0.0.0.0", 0)]

NoHist == [call |-> "none", addr |-> SocketAddrV4("0.0.0.0", 0)]

\* held: the last concrete correspondent; disc: disconnect was called since;
\* from: the correspondent the server was moved away from, by disconnect and
\* connect; rejected: a datagram of `from` was filtered since
NoSwitch == [held |-> None, disc |-> FALSE, from |-> None, rejected |-> FALSE]

SwitchConnect(sw, addr) ==
  IF is_unspecified(addr) THEN [sw EXCEPT !.rejected = FALSE]
  ELSE [held |-> Some(addr), disc |-> FALSE,
        from |-> IF sw.held.some /\ sw.held.addr # addr
                 THEN (IF sw.disc THEN sw.held ELSE None)
                 ELSE sw.from,
        rejected |-> FALSE]

(***************************************************************************)
(* Peer (src/src/peer.rs): operations                                      *)
(***************************************************************************)
\* the addresses connect is called with: a peer's address, or the wildcard
ConnectAddrs == {LocalAddrOf(s) : s \in Sockets} \cup {SocketAddrV4("0.0.0.0", 0)}

\* Peer::new(socket, key) on a freshly bound socket
PeerNew(s, key, seed) ==
  [socket |-> s, crypto |-> CryptoNew(key, seed), origin |-> s]

\* Peer::connect
Connect(h, addr) ==
  /\ sock' = [sock EXCEPT ![SocketOf(h)] = SocketConnect(@, local_addr(h), addr)]
  /\ hist' = [hist EXCEPT ![SocketOf(h)] = [call |-> "connect", addr |-> addr]]
  /\ switch' = IF SocketOf(h) = Server THEN SwitchConnect(switch, addr) ELSE switch
  /\ last' = NoLast
  /\ UNCHANGED <<peers, entropy, sent>>

\* the address disconnect connects to
DisconnectAddrLocal(h) == local_addr(h)

DisconnectAddr(h) == to_unspecified(local_addr(h))

\* Peer::disconnect
Disconnect(h) ==
  /\ sock' = [sock EXCEPT ![SocketOf(h)] =
                SocketConnect(@, local_addr(h), DisconnectAddr(h))]
  /\ hist' = [hist EXCEPT ![SocketOf(h)] = [call |-> "disconnect", addr |-> DisconnectAddr(h)]]
  /\ switch' = IF SocketOf(h) = Server
                THEN [switch EXCEPT !.rejected = FALSE, !.disc = switch.held.some]
                ELSE switch
  /\ last' = NoLast
  /\ UNCHANGED <<peers, entropy, sent>>

\* Peer::set_read_timeout
SetReadTimeout(h, t) ==
  /\ sock[SocketOf(h)].rto # t
  /\ sock' = [sock EXCEPT ![SocketOf(h)].rto = t]
  /\ last' = NoLast
  /\ UNCHANGED <<peers, entropy, sent, hist, switch>>

\* Peer::set_write_timeout
SetWriteTimeout(h, t) ==
  /\ sock[SocketOf(h)].wto # t
  /\ sock' = [sock EXCEPT ![SocketOf(h)].wto = t]
  /\ last' = NoLast
  /\ UNCHANGED <<peers, entropy, sent, hist, switch>>

\* the transport step of send: the datagram reaches the socket bound to the
\* destination, passes its filter or is dropped
Deliver(socks, dg, to) ==
  [t \in Sockets |->
     IF t \in to /\ SocketAccepts(socks[t], dg.src)
     THEN [socks[t] EXCEPT !.rxq = Append(@, dg)]
     ELSE socks[t]]

\* the caller's buffer when send returns: it was encrypted in place before
\* the transport step and is not restored when that step fails
AfterSendRestore(plaintext, encrypted, kind) ==
  IF kind = "Ok" THEN encrypted ELSE plaintext

AfterSend(plaintext, encrypted, kind) == encrypted

\* Peer::send on a buffer holding plaintext; orig is the message the caller
\* first put in the buffer, fault the error the transport step meets, if any
SendBuf(h, plaintext, orig, fault) ==
  /\ sent < MaxSends
  /\ LET s    == SocketOf(h)
         sk   == sock[s]
         enc  == Encrypt(peers[h].crypto, plaintext)
         kind == IF fault # "none" /\ sk.connected THEN fault ELSE SocketSendKind(sk)
         to   == RouteTo(sk.daddr, sk.dport)
         dg   == [some |-> TRUE, src |-> LocalAddrOf(s), data |-> enc.buf,
                  orig |-> orig, forged |-> "none",
                  pt |-> plaintext, cipher |-> peers[h].crypto.cipher, h |-> h,
                  dstPeer |-> IF to = {} THEN None
                              ELSE LET t == CHOOSE t \in to : TRUE
                                   IN  IF SocketPeerAddr(sock[t]).ok
                                       THEN Some(SocketPeerAddr(sock[t]).addr)
                                       ELSE None,
                  dstCall |-> IF to = {} THEN "none"
                              ELSE hist[CHOOSE t \in to : TRUE].call]
     IN  /\ peers' = [peers EXCEPT ![h].crypto = enc.crypto]
         /\ sock' = IF kind = "Ok" THEN Deliver(sock, dg, to) ELSE sock
         /\ switch' = IF /\ kind = "Ok" /\ Server \in to
                          /\ ~SocketAccepts(sock[Server], dg.src)
                          /\ switch.from = Some(dg.src)
                       THEN [switch EXCEPT !.rejected = TRUE]
                       ELSE switch
         /\ last' = [NoLast EXCEPT !.op = "send", !.h = h, !.kind = kind,
                       !.arg = plaintext, !.buf = AfterSend(plaintext, enc.buf, kind),
                       !.dg = IF kind = "Ok" THEN dg ELSE NoDatagram,
                       !.peer = remote_addr_optional(h), !.nonce = enc.nonce,
                       !.orig = orig]
  /\ sent' = sent + 1
  /\ UNCHANGED <<entropy, hist>>

\* Peer::send of a message, with the transport working
Send(h, plaintext) == SendBuf(h, plaintext, plaintext, "none")

\* Peer::send called again on the buffer a failed send left
Resend(h) ==
  /\ last.op = "send" /\ last.h = h /\ last.kind # "Ok"
  /\ SendBuf(h, last.buf, last.orig, "none")

\* socket.recv(buffer): the datagram is copied into the front of the buffer,
\* cut to the buffer's length
RecvInto(buffer, data) ==
  [i \in 1..Len(buffer) |-> IF i <= Len(data) THEN data[i] ELSE buffer[i]]

\* buffer.truncate(len)
TruncateNone(buffer, len) == buffer

Truncate(buffer, len) == SubSeq(buffer, 1, Min(len, Len(buffer)))

\* the number of bytes socket.recv reports: what fitted into the buffer
SocketRecvLenWhole(data, n) == Len(data)

SocketRecvLen(data, n) == Min(Len(data), n)

\* a read that leaves the datagram in the queue
SocketDequeuePeek(rxq) == rxq

\* the receive queue once socket.recv has returned a datagram
SocketDequeue(rxq) == Tail(rxq)

\* the early return of recv when socket.recv fails: the buffer is as it was
RecvErrTruncated(buffer) == << >>

RecvErr(buffer) == buffer

\* the result of recv once decrypt has returned
RecvKindSwallow(dec) == "Ok"

RecvKind(dec) == IF dec.ok THEN "Ok" ELSE CryptoErrorKind

\* Peer::recv into a Vec of n bytes with capacity cap; fault is the error
\* the transport step meets, if any
RecvVec(h, n, cap, fault) ==
  LET s    == SocketOf(h)
      sk   == sock[s]
      base == [NoLast EXCEPT !.op = "recv", !.h = h, !.arg = Zeros(n), !.cap = cap,
                 !.peer = remote_addr_optional(h), !.rto = sk.rto,
                 !.switched = /\ s = Server
                              /\ remote_addr_optional(h).some
                              /\ switch.from.some
                              /\ switch.from # remote_addr_optional(h)
                              /\ switch.rejected,
                 !.fromPeer = \E i \in 1..Len(sk.rxq) :
                                 Some(sk.rxq[i].src) = remote_addr_optional(h),
                 !.stale = /\ s = Server
                           /\ \E i \in 1..Len(sk.rxq) :
                                 Some(sk.rxq[i].src) = switch.from]
  IN  /\ IF fault # "none"
         THEN /\ last' = [base EXCEPT !.kind = fault, !.buf = RecvErr(Zeros(n))]
              /\ UNCHANGED sock
         ELSE IF sk.rxq = << >>
         THEN /\ sk.rto = "Some"
              /\ last' = [base EXCEPT !.kind = "WouldBlock", !.buf = RecvErr(Zeros(n))]
              /\ UNCHANGED sock
         ELSE LET dg  == Head(sk.rxq)
                  len == SocketRecvLen(dg.data, n)
                  got == Truncate(RecvInto(Zeros(n), dg.data), len)
                  dec == Decrypt(peers[h].crypto, got)
              IN  /\ last' = [base EXCEPT
                                !.kind = RecvKind(dec),
                                !.buf = dec.buf, !.dg = dg, !.len = len,
                                !.decrypted = TRUE,
                                !.cipherCalled = dec.cipherCalled]
                  /\ sock' = [sock EXCEPT ![s].rxq = SocketDequeue(@)]
      /\ UNCHANGED <<peers, entropy, sent, hist, switch>>

\* Peer::recv into vec![0u8; n], with the transport working
Recv(h, n) == RecvVec(h, n, n, "none")

\* socket.try_clone(): a second handle onto the same socket
TryCloneRebind(s) == (s % 3) + 1

TryClone(s) == s

\* impl Clone for Peer
Clone(h) ==
  /\ Len(peers) < MaxHandles
  /\ peers' = Append(peers, [socket |-> TryClone(peers[h].socket),
                             crypto |-> CryptoClone(peers[h].crypto, entropy + 1),
                             origin |-> peers[h].origin])
  /\ entropy' = entropy + 1
  /\ last' = [NoLast EXCEPT !.op = "clone", !.h = h]
  /\ UNCHANGED <<sock, sent, hist, switch>>

(***************************************************************************)
(* Construction                                                            *)
(***************************************************************************)
\* Peer::setup(bind_addr, connect_addr, key): bind, Peer::new, connect
SetupSocket(s, connect_addr) == SocketConnect(SocketBind, LocalAddrOf(s), connect_addr)

\* the three peers, each wrapping its own socket
InitPeers ==
  /\ peers = [s \in 1..3 |-> PeerNew(s, KeyOf(s), s)]
  /\ entropy = 3
  /\ sent = 0
  /\ switch = NoSwitch
  /\ last = NoLast

(***************************************************************************)
(* Connection management: every peer is wrapped by Peer::new on a bound,   *)
(* never connected socket, or built by Peer::setup(bind, "0.0.0.0:0", key);*)
(* any handle may then connect anywhere, disconnect and clone, and the     *)
(* handles of peer 1 set its timeouts.                                     *)
(***************************************************************************)
ConnInit ==
  /\ InitPeers
  /\ \E setup \in SUBSET Sockets :
       /\ sock = [s \in Sockets |->
                    IF s \in setup
                    THEN SetupSocket(s, SocketAddrV4("0.0.0.0", 0))
                    ELSE SocketBind]
       /\ hist = [s \in Sockets |->
                    IF s \in setup
                    THEN [call |-> "connect", addr |-> SocketAddrV4("0.0.0.0", 0)]
                    ELSE NoHist]

ConnNext ==
  \/ \E h \in Handles, addr \in ConnectAddrs : Connect(h, addr)
  \/ \E h \in Handles : Disconnect(h)
  \/ \E h \in ServerHandles, t \in Timeouts : SetReadTimeout(h, t)
  \/ \E h \in ServerHandles, t \in Timeouts : SetWriteTimeout(h, t)
  \/ \E h \in Handles : Clone(h)

ConnSpec == ConnInit /\ [][ConnNext]_vars

(***************************************************************************)
(* Messaging: peer 1 is the server of src/src/lib.rs's switching test, and *)
(* peers 2 and 3 are clients built by Peer::setup(bind, server address,    *)
(* key).  The server connects to either client, disconnects and sets its   *)
(* read timeout; every handle sends, receives and clones.                  *)
(***************************************************************************)
ClientAddrs == {LocalAddrOf(s) : s \in Sockets \ {Server}}

Init ==
  /\ InitPeers
  /\ \E setup \in BOOLEAN :
       /\ sock = [s \in Sockets |->
                    IF s # Server THEN SetupSocket(s, LocalAddrOf(Server))
                    ELSE IF setup THEN SetupSocket(s, SocketAddrV4("0.0.0.0", 0))
                    ELSE SocketBind]
       /\ hist = [s \in Sockets |->
                    IF s # Server THEN [call |-> "connect", addr |-> LocalAddrOf(Server)]
                    ELSE IF setup THEN [call |-> "connect", addr |-> SocketAddrV4("0.0.0.0", 0)]
                    ELSE NoHist]

Next ==
  \/ \E h \in ServerHandles, addr \in ClientAddrs : Connect(h, addr)
  \/ \E h \in ServerHandles : Disconnect(h)
  \/ \E h \in ServerHandles, t \in Timeouts : SetReadTimeout(h, t)
  \/ \E h \in Handles, p \in Messages : Send(h, p)
  \/ \E h \in Handles, n \in RecvLens : Recv(h, n)
  \/ \E h \in Handles : Clone(h)

Spec == Init /\ [][Next]_vars

(***************************************************************************)
(* The crypto engines on their own: the engines of the three peers (and    *)
(* of their clones) encrypt plaintexts and decrypt the buffer the last     *)
(* call left, as the unit of src/src/crypto.rs is used by send and recv.   *)
(***************************************************************************)
CryptoInit ==
  /\ InitPeers
  /\ sock = [s \in Sockets |-> SocketBind]
  /\ hist = [s \in Sockets |-> NoHist]

\* Crypto::encrypt on a fresh buffer holding plaintext
CryptoEncrypt(h, plaintext) ==
  /\ sent < MaxCrypt
  /\ LET enc == Encrypt(peers[h].crypto, plaintext)
     IN  /\ peers' = [peers EXCEPT ![h].crypto = enc.crypto]
         /\ last' = [NoLast EXCEPT !.op = "encrypt", !.h = h,
                       !.kind = IF enc.ok THEN "Ok" ELSE CryptoErrorKind,
                       !.arg = plaintext, !.buf = enc.buf, !.nonce = enc.nonce,
                       !.dg = [NoDatagram EXCEPT !.some = TRUE, !.data = enc.buf,
                                 !.pt = plaintext, !.h = h,
                                 !.cipher = peers[h].crypto.cipher]]
  /\ sent' = sent + 1
  /\ UNCHANGED <<sock, entropy, hist, switch>>

\* Crypto::decrypt on the buffer the last call left
CryptoDecrypt(h) ==
  /\ last.op # "decrypt"
  /\ LET dec == Decrypt(peers[h].crypto, last.buf)
     IN  last' = [NoLast EXCEPT !.op = "decrypt", !.h = h,
                    !.kind = IF dec.ok THEN "Ok" ELSE CryptoErrorKind,
                    !.arg = last.buf, !.buf = dec.buf,
                    !.cipherCalled = dec.cipherCalled,
                    !.dg = IF last.op = "encrypt" THEN last.dg ELSE NoDatagram]
  /\ UNCHANGED <<peers, sock, entropy, sent, hist, switch>>

CryptoNext ==
  \/ \E h \in Handles, p \in Plaintexts : CryptoEncrypt(h, p)
  \/ \E h \in Handles : CryptoDecrypt(h)
  \/ \E h \in Handles : Clone(h)

CryptoSpec == CryptoInit /\ [][CryptoNext]_vars

(***************************************************************************)
(* Messaging over a network that misbehaves: the transport step of send    *)
(* or recv may fail (a pending ICMP error, a signal), a queued datagram    *)
(* may have a bit changed, and anybody may send bytes of their own to a    *)
(* peer's socket.  The receive buffer is a Vec with a length and a         *)
(* capacity.  The server is built by Peer::new, by Peer::setup with the    *)
(* unspecified address, or by Peer::setup connected to the first client.   *)
(***************************************************************************)
SendFaults == {"ConnectionRefused"}
RecvFaults == {"Interrupted"}

\* the receive buffers: <<length, capacity>>
RecvVecs == {<<0, 64>>, <<29, 29>>, <<30, 32>>, <<64, 64>>}

\* what somebody without the key sends
Forgeries == {Zeros(MINIMUM_BUFFER_LENGTH), Zeros(MINIMUM_BUFFER_LENGTH + 2)}

CorruptAt == {1, 3, 19, 30}
CorruptBits == {0, 7}

WireInit ==
  /\ InitPeers
  /\ \E server \in {"new", "unspecified", "client"} :
       /\ sock = [s \in Sockets |->
                    IF s # Server THEN SetupSocket(s, LocalAddrOf(Server))
                    ELSE IF server = "new" THEN SocketBind
                    ELSE IF server = "unspecified"
                    THEN SetupSocket(s, SocketAddrV4("0.0.0.0", 0))
                    ELSE SetupSocket(s, LocalAddrOf(2))]
       /\ hist = [s \in Sockets |->
                    IF s # Server THEN [call |-> "connect", addr |-> LocalAddrOf(Server)]
                    ELSE IF server = "new" THEN NoHist
                    ELSE IF server = "unspecified"
                    THEN [call |-> "connect", addr |-> SocketAddrV4("0.0.0.0", 0)]
                    ELSE [call |-> "connect", addr |-> LocalAddrOf(2)]]

\* one bit of the datagram at the head of a receive queue changes
Corrupt(s, i, b) ==
  /\ sock[s].rxq # << >>
  /\ Head(sock[s].rxq).forged = "none"
  /\ i <= Len(Head(sock[s].rxq).data)
  /\ sock' = [sock EXCEPT ![s].rxq[1] =
                [@ EXCEPT !.data = FlipBitOf(@, i, b), !.forged = "flip"]]
  /\ last' = NoLast
  /\ UNCHANGED <<peers, entropy, sent, hist, switch>>

\* somebody who does not hold the key sends data to socket s, from src
Forge(s, src, data) ==
  /\ sent < MaxSends
  /\ SocketAccepts(sock[s], src)
  /\ sock' = Deliver(sock, [NoDatagram EXCEPT !.some = TRUE, !.src = src,
                                              !.data = data, !.forged = "forged"],
                     {s})
  /\ sent' = sent + 1
  /\ last' = NoLast
  /\ UNCHANGED <<peers, entropy, hist, switch>>

WireNext ==
  \/ \E h \in ServerHandles, t \in Timeouts : SetReadTimeout(h, t)
  \/ \E h \in Handles, p \in Messages, f \in {"none"} \cup SendFaults :
       SendBuf(h, p, p, f)
  \/ \E h \in Handles : Resend(h)
  \/ \E h \in Handles, v \in RecvVecs, f \in {"none"} \cup RecvFaults :
       RecvVec(h, v[1], v[2], f)
  \/ \E s \in Sockets, i \in CorruptAt, b \in CorruptBits : Corrupt(s, i, b)
  \/ \E s \in Sockets : \E t \in Sockets \ {s}, data \in Forgeries :
       Forge(s, LocalAddrOf(t), data)

WireSpec == WireInit /\ [][WireNext]_vars

(***************************************************************************)
(* The crypto engine against a buffer that was changed in transit: a       *)
(* buffer that encrypt produced has one bit flipped or is cut short, and   *)
(* is then given to decrypt on any engine.                                 *)
(***************************************************************************)
\* one bit of the encrypted buffer changes on the way
FlipBit(i, b) ==
  /\ last.op = "encrypt"
  /\ i \in 1..Len(last.buf)
  /\ last' = [last EXCEPT !.op = "flip", !.buf = FlipBitOf(@, i, b)]
  /\ UNCHANGED <<peers, sock, entropy, sent, hist, switch>>

\* only the first n bytes of the encrypted buffer arrive
Shorten(n) ==
  /\ last.op = "encrypt"
  /\ n < Len(last.buf)
  /\ last' = [last EXCEPT !.op = "cut", !.buf = SubSeq(@, 1, n)]
  /\ UNCHANGED <<peers, sock, entropy, sent, hist, switch>>

\* Crypto::decrypt on the buffer as it arrived
DecryptArrived(h) ==
  /\ last.op \in {"encrypt", "flip", "cut"}
  /\ LET dec == Decrypt(peers[h].crypto, last.buf)
     IN  last' = [NoLast EXCEPT !.op = "decrypt", !.h = h,
                    !.kind = IF dec.ok THEN "Ok" ELSE CryptoErrorKind,
                    !.arg = last.buf, !.buf = dec.buf,
                    !.cipherCalled = dec.cipherCalled,
                    !.dg = last.dg,
                    !.tamper = IF last.op = "encrypt" THEN "none" ELSE last.op]
  /\ UNCHANGED <<peers, sock, entropy, sent, hist, switch>>

TamperNext ==
  \/ \E h \in Handles, p \in Plaintexts : sent < MaxTamper /\ CryptoEncrypt(h, p)
  \/ \E i \in 1..(2 + MINIMUM_BUFFER_LENGTH), b \in Bits : FlipBit(i, b)
  \/ \E n \in 0..(1 + MINIMUM_BUFFER_LENGTH) : Shorten(n)
  \/ \E h \in Handles : DecryptArrived(h)

TamperSpec == CryptoInit /\ [][TamperNext]_vars

(***************************************************************************)
(* Receiving behind a bad datagram: the peers of WireSpec, with a working  *)
(* transport; datagrams are sent, changed in the queue or made without the *)
(* key, and every handle, clones included, receives.                       *)
(***************************************************************************)
QueueNext ==
  \/ \E h \in ServerHandles, t \in Timeouts : SetReadTimeout(h, t)
  \/ \E h \in Handles, p \in Messages : Send(h, p)
  \/ \E s \in Sockets, i \in CorruptAt, b \in CorruptBits : Corrupt(s, i, b)
  \/ \E s \in Sockets : \E t \in Sockets \ {s}, data \in Forgeries :
       Forge(s, LocalAddrOf(t), data)
  \/ \E h \in Handles, n \in RecvLens : Recv(h, n)
  \/ \E h \in Handles : Clone(h)

QueueSpec == WireInit /\ [][QueueNext]_vars

(***************************************************************************)
(* The functions of src/src/key.rs and src/src/util.rs and the address     *)
(* observers of the peer, applied to inputs drawn from bounded sets: key   *)
(* strings around the valid length with and without a character that is    *)
(* no hex digit, every kind of I/O error, and a peer bound on either IP    *)
(* family; peer 1 also connects and disconnects.                           *)
(***************************************************************************)
\* "0123456789abcdefABCDEF"
HexDigits ==
  <<48, 49, 50, 51, 52, 53, 54, 55, 56, 57, 97, 98, 99, 100, 101, 102,
    65, 66, 67, 68, 69, 70>>

\* n hex digits, taken from HexDigits in turn starting after the k-th
HexString(n, k) == [i \in 1..n |-> HexDigits[((i + k) % Len(HexDigits)) + 1]]

KeyLens == {0, 30, 31, 32, 33, 34}
KeyOffsets == {0, 7}
\* 'g', ' ' and 'x'
NonHex == {103, 32, 120}

\* the strings parsed: hex digits only, or with one other character
KeyStrings ==
  {HexString(n, k) : n \in KeyLens, k \in KeyOffsets}
  \cup UNION {{[HexString(n, k) EXCEPT ![i] = c] : i \in 1..n, c \in NonHex} :
                n \in KeyLens, k \in KeyOffsets}

\* s.parse::<Key>(), and the io::Error its error converts to
KeyParse(str) ==
  /\ LET r == KeyFromStr(str)
     IN  last' = [NoLast EXCEPT !.op = "parse", !.arg = str, !.buf = r.key,
                    !.kind = IF r.ok THEN "Ok" ELSE InvalidKeyErrorKind,
                    !.err = r.err, !.detail = r.detail]
  /\ UNCHANGED <<peers, sock, entropy, sent, hist, switch>>

\* where an io::Error comes from: the transport, or one of the conversions
ErrorSources == {"io", "CryptoError", "InvalidKeyError"}

\* can_retry(&e) and can_reconnect(&e)
Classify(kind, from) ==
  /\ from = "CryptoError" => kind = CryptoErrorKind
  /\ from = "InvalidKeyError" => kind = InvalidKeyErrorKind
  /\ last' = [NoLast EXCEPT !.op = "classify", !.kind = kind, !.err = from,
                 !.retry = can_retry(kind), !.reconnect = can_reconnect(kind)]
  /\ UNCHANGED <<peers, sock, entropy, sent, hist, switch>>

\* the addresses a peer may be bound to
LocalAddrs == {SocketAddrV4("127.0.0.1", 4001), [v |-> "V6", ip |-> "::1", port |-> 4001]}

\* what socket.peer_addr() may return on a socket bound to local
PeerAddrResults(local) ==
  {[ok |-> FALSE, addr |-> SocketAddrV4("0.0.0.0", 0)]}
  \cup {[ok |-> TRUE, addr |-> [v |-> local.v, ip |-> local.ip, port |-> p]] :
          p \in {4002, 4003}}

\* Peer::remote_addr_optional and Peer::remote_addr on such a peer
ObserveRemote(local, r) ==
  /\ last' = [NoLast EXCEPT !.op = "remote_addr", !.local = local,
                 !.kind = IF r.ok THEN "Ok" ELSE "NotConnected",
                 !.peer = RemoteAddrOptionalOf(r),
                 !.addr = RemoteAddrOf(r, local)]
  /\ UNCHANGED <<peers, sock, entropy, sent, hist, switch>>

\* each function is applied to one input; connect and disconnect start afresh
UtilNext ==
  \/ \E str \in KeyStrings : last.op = "none" /\ KeyParse(str)
  \/ \E kind \in ErrorKinds, from \in ErrorSources :
       last.op = "none" /\ Classify(kind, from)
  \/ \E local \in LocalAddrs : \E r \in PeerAddrResults(local) :
       last.op = "none" /\ ObserveRemote(local, r)
  \/ \E h \in ServerHandles, addr \in ConnectAddrs : Connect(h, addr)
  \/ \E h \in ServerHandles : Disconnect(h)

UtilSpec == CryptoInit /\ [][UtilNext]_vars

(***************************************************************************)
(* Properties                                                              *)
(***************************************************************************)

\* C1: the reported correspondent is determined by the last connect or
\* disconnect call on the peer's socket: None for a never connected peer, for
\* one set up with the unspecified address and after disconnect; Some(addr)
\* after connect(addr) with addr a concrete address.
C1_ConnectionSentinel ==
  \A h \in Handles :
    LET c == hist[SocketOf(h)]
    IN  remote_addr_optional(h) =
          IF c.call = "connect" /\ ~is_unspecified(c.addr) THEN Some(c.addr) ELSE None

\* the server was connected to one peer, then to another, and is disconnected
C1_Witness ==
  /\ hist[Server].call = "disconnect"
  /\ switch.held.some /\ switch.from.some
  /\ remote_addr_optional(Server) = None
  /\ \E s \in Sockets \ {Server} :
       /\ hist[s].call = "connect"
       /\ remote_addr_optional(s) = Some(hist[s].addr)

\* C2: a recv whose buffer holds the whole datagram (|P| + 28 bytes), on a
\* handle with the sender's key, returns Ok and leaves exactly the plaintext P.
C2_EndToEndDelivery ==
  ( /\ last.op = "recv" /\ last.dg.some
    /\ last.dg.cipher = peers[last.h].crypto.cipher
    /\ Len(last.arg) >= Len(last.dg.pt) + 28 )
  => /\ last.kind = "Ok"
     /\ last.buf = last.dg.pt
     /\ Len(last.buf) = Len(last.dg.pt)

\* two peers connected to each other; one sent and the other received, one of
\* them through a clone
C2_Witness ==
  /\ last.op = "recv" /\ last.kind = "Ok"
  /\ last.h > 3 \/ last.dg.h > 3
  /\ last.peer = Some(last.dg.src)
  /\ remote_addr_optional(last.dg.h) = Some(local_addr(last.h))
  /\ last.buf = <<104, 105>>

\* every datagram a socket holds or has just returned came from the socket's
\* correspondent at the time it was sent
OnlyFromCorrespondent ==
  /\ \A s \in Sockets : \A i \in 1..Len(sock[s].rxq) :
       sock[s].rxq[i].dstPeer.some => sock[s].rxq[i].dstPeer.addr = sock[s].rxq[i].src
  /\ (last.op = "recv" /\ last.dg.some /\ last.dg.dstPeer.some)
       => last.dg.dstPeer.addr = last.dg.src

C4_ScenarioB ==
  ( /\ last.op = "recv" /\ SocketOf(last.h) = Server
    /\ hist[Server].call = "disconnect" /\ switch.held.some
    /\ last.rto = "Some"
    /\ Len(last.arg) >= Len(last.dg.data)
    /\ last.dg.some => ( /\ last.dg.dstCall = "disconnect"
                         /\ Some(last.dg.src) = switch.held ) )
  => can_retry(last.kind)

\* C5: send on a peer with no correspondent fails and transmits nothing.
C5_SendNotConnected ==
  (last.op = "send" /\ ~last.peer.some)
  => (last.kind \in {"NotConnected", "Uncategorized"} /\ ~last.dg.some)

\* C6: recv on a peer with no correspondent fails with a not-connected error.
C6_RecvNotConnected ==
  (last.op = "recv" /\ ~last.peer.some) => last.kind = "NotConnected"

\* C7: a peer and its clones observe the same local address, the same
\* correspondent and the same timeouts.
C7_CloneAliasing ==
  \A h \in Handles : \A g \in Handles :
    peers[h].origin = peers[g].origin
    => /\ local_addr(h) = local_addr(g)
       /\ remote_addr_optional(h) = remote_addr_optional(g)
       /\ read_timeout(h) = read_timeout(g)
       /\ write_timeout(h) = write_timeout(g)

\* the server and a clone of it both observe a connection and both timeouts,
\* none of which was there when the server was built
C7_Witness ==
  \E h \in Handles : \E g \in Handles :
    /\ h # g /\ peers[h].origin = Server /\ peers[g].origin = Server
    /\ hist[Server].call = "connect"
    /\ remote_addr_optional(h) = Some(hist[Server].addr)
    /\ remote_addr_optional(g) = Some(hist[Server].addr)
    /\ read_timeout(h) = "Some" /\ read_timeout(g) = "Some"
    /\ write_timeout(h) = "Some" /\ write_timeout(g) = "Some"

\* C8: no two live engines hold the same generator state, and a clone keeps
\* the cipher of the peer it was cloned from.
C8_CloneFreshRng ==
  /\ \A h \in Handles : \A g \in Handles :
       h # g => peers[h].crypto.csprng # peers[g].crypto.csprng
  /\ \A h \in Handles :
       peers[h].crypto.cipher = peers[peers[h].origin].crypto.cipher

\* a peer that has already encrypted was just cloned
C8_Witness ==
  /\ last.op = "clone"
  /\ peers[last.h].crypto.csprng.pos > 0
  /\ peers[Len(peers)].crypto.csprng.pos = 0
  /\ peers[Len(peers)].crypto.cipher = peers[last.h].crypto.cipher

\* C9: a buffer that encrypt produced from plaintext P under key K, decrypted
\* by any engine for K, gives Ok and leaves exactly P.
C9_RoundTrip ==
  ( /\ last.op = "decrypt" /\ last.dg.some
    /\ peers[last.h].crypto.cipher = last.dg.cipher )
  => (last.kind = "Ok" /\ last.buf = last.dg.pt)

\* the empty plaintext, encrypted by one engine and decrypted by a clone
C9_Witness ==
  /\ last.op = "decrypt" /\ last.kind = "Ok" /\ last.dg.some
  /\ last.h # last.dg.h /\ last.h > 3
  /\ last.dg.pt = << >> /\ last.buf = << >>

\* C10: encrypt of n bytes leaves n + 28 bytes: ciphertext, then the 16-byte
\* tag over it, then the 12 bytes of the nonce drawn for the call; decrypt
\* succeeds exactly when the 16 bytes before the last 12 are the tag of the
\* preceding bytes under the nonce held in the last 12.
C10_WireFormat ==
  /\ last.op = "encrypt" =>
       LET n      == Len(last.arg)
           cipher == peers[last.h].crypto.cipher
           drawn  == GenerateNonce([peers[last.h].crypto.csprng EXCEPT !.pos = @ - 1])
       IN  /\ Len(last.buf) = n + 28
           /\ SubSeq(last.buf, n + 17, n + 28) = drawn
           /\ SubSeq(last.buf, n + 1, n + 16)
                = GcmTag(cipher, drawn, SubSeq(last.buf, 1, n))
           /\ SubSeq(last.buf, 1, n) = ApplyKeyStream(cipher, drawn, last.arg)
  /\ (last.op = "decrypt" /\ Len(last.arg) >= 28) =>
       LET n == Len(last.arg) - 28
       IN  last.kind = "Ok"
             <=> SubSeq(last.arg, n + 1, n + 16)
                   = GcmTag(peers[last.h].crypto.cipher,
                            SubSeq(last.arg, n + 17, n + 28),
                            SubSeq(last.arg, 1, n))

\* a two-byte plaintext was encrypted by an engine that had encrypted before
C10_Witness ==
  /\ last.op = "encrypt" /\ last.kind = "Ok"
  /\ Len(last.arg) = 2 /\ Len(last.buf) = 30
  /\ peers[last.h].crypto.csprng.pos = 2
  /\ SubSeq(last.buf, 19, 30) = last.nonce

\* C11: decrypt on a buffer of fewer than 28 bytes returns CryptoError without
\* calling the cipher and leaves the buffer as it was; the 28 bytes encrypt
\* made of the empty plaintext pass the length check and are authenticated.
C11_MinimumLength ==
  /\ (last.op = "decrypt" /\ Len(last.arg) < 28)
       => /\ last.kind = CryptoErrorKind
          /\ ~last.cipherCalled
          /\ last.buf = last.arg
  /\ (last.op = "decrypt" /\ Len(last.arg) = 28) => last.cipherCalled
  /\ ( /\ last.op = "decrypt" /\ last.tamper = "none" /\ last.dg.pt = << >>
       /\ peers[last.h].crypto.cipher = last.dg.cipher )
       => (Len(last.arg) = 28 /\ last.cipherCalled /\ last.kind = "Ok")

\* a buffer cut to 27 bytes was refused without calling the cipher
C11_Witness ==
  /\ last.op = "decrypt" /\ last.tamper = "cut" /\ Len(last.arg) = 27
  /\ last.kind = CryptoErrorKind /\ ~last.cipherCalled
  /\ peers[last.h].crypto.cipher = last.dg.cipher

\* C12: a buffer that encrypt produced under key K, with any single bit
\* changed, fails to decrypt on every engine for K.
C12_TamperDetection ==
  ( /\ last.op = "decrypt" /\ last.tamper = "flip"
    /\ peers[last.h].crypto.cipher = last.dg.cipher )
  => (last.kind = CryptoErrorKind /\ last.kind # "Ok")

\* a bit of the ciphertext region was changed and decrypt under the same key
\* was called on the full-length buffer
C12_Witness ==
  /\ last.op = "decrypt" /\ last.tamper = "flip" /\ last.cipherCalled
  /\ peers[last.h].crypto.cipher = last.dg.cipher
  /\ \E i \in 1..Len(last.dg.pt) : last.arg[i] # last.dg.data[i]
  /\ last.kind = CryptoErrorKind

\* C13: a datagram encrypted under one key is never returned as Ok by recv
\* (so by decrypt) on a peer holding another key; when the whole datagram was
\* received the error is the one CryptoError converts to.
C13_CrossKeyFailure ==
  ( /\ last.op = "recv" /\ last.dg.some
    /\ last.dg.cipher # peers[last.h].crypto.cipher )
  => /\ last.kind # "Ok"
     /\ last.kind = CryptoErrorKind

\* the server, holding key A, received the whole datagram its correspondent
\* sent under key B, and the cipher was called on it
C13_Witness ==
  /\ last.op = "recv" /\ last.dg.some /\ SocketOf(last.h) = Server
  /\ last.dg.cipher = CipherNew(KeyB)
  /\ peers[last.h].crypto.cipher = CipherNew(KeyA)
  /\ Len(last.arg) >= Len(last.dg.data) /\ last.cipherCalled
  /\ last.peer = Some(last.dg.src)
  /\ last.kind = CryptoErrorKind

\* C14: a recv that took a datagram which does not authenticate (a bit was
\* changed, it was made without the key, or it was sent under another key)
\* returns the error CryptoError converts to, never Ok and never a retryable
\* kind, and the buffer does not hold the datagram's plaintext.
C14_AuthFailureSurfaced ==
  ( /\ last.op = "recv" /\ last.dg.some
    /\ \/ last.dg.forged # "none"
       \/ last.dg.cipher # peers[last.h].crypto.cipher )
  => /\ last.kind = CryptoErrorKind /\ last.kind # "Ok"
     /\ ~can_retry(last.kind)
     /\ last.decrypted
     /\ last.dg.forged # "forged" => last.buf # last.dg.pt

\* a datagram of the correspondent, sent under the receiver's key, had a bit
\* changed in the queue and was received whole
C14_Witness ==
  /\ last.op = "recv" /\ last.dg.some /\ last.dg.forged = "flip"
  /\ last.dg.cipher = peers[last.h].crypto.cipher
  /\ last.peer = Some(last.dg.src)
  /\ last.len = Len(last.dg.data) /\ last.cipherCalled
  /\ last.kind = CryptoErrorKind

\* C18 as stated: a recv whose buffer has capacity for the datagram receives
\* all of it; a datagram larger than the capacity is never returned as Ok.
C18_AsStated ==
  /\ (last.op = "recv" /\ last.dg.some /\ last.cap >= Len(last.dg.data))
       => last.len = Len(last.dg.data)
  /\ (last.op = "recv" /\ last.dg.some /\ last.cap < Len(last.dg.data))
       => last.kind # "Ok"

\* C18 (amended): the bound is the buffer's length when recv is called: a
\* buffer at least as long as the datagram receives all of it (and a genuine
\* datagram under the receiver's key then gives Ok and its plaintext); a
\* longer datagram is cut to the buffer's length and is never returned as Ok.
C18_LengthBounds ==
  /\ (last.op = "recv" /\ last.dg.some /\ Len(last.arg) >= Len(last.dg.data))
       => /\ last.len = Len(last.dg.data)
          /\ ( /\ last.dg.forged = "none"
               /\ last.dg.cipher = peers[last.h].crypto.cipher )
             => (last.kind = "Ok" /\ last.buf = last.dg.pt)
  /\ (last.op = "recv" /\ last.dg.some /\ Len(last.arg) < Len(last.dg.data))
       => /\ last.len = Len(last.arg)
          /\ last.kind = CryptoErrorKind

\* a genuine 30-byte datagram under the receiver's key was received into a
\* 29-byte buffer
C18_Witness ==
  /\ last.op = "recv" /\ last.dg.some /\ last.dg.forged = "none"
  /\ last.dg.cipher = peers[last.h].crypto.cipher
  /\ Len(last.dg.data) = 30 /\ Len(last.arg) = 29 /\ last.len = 29
  /\ last.kind = CryptoErrorKind

\* C19: when the transport step of send fails nothing is transmitted, the
\* buffer holds ciphertext, tag and nonce of the plaintext (28 bytes more) and
\* the generator has advanced; a datagram sent by calling send again on that
\* buffer decrypts, at the receiver, to the first call's ciphertext and not to
\* the original message.
C19_SendNoRollback ==
  /\ (last.op = "send" /\ last.kind # "Ok")
       => LET crypto == peers[last.h].crypto
              drawn  == GenerateNonce([crypto.csprng EXCEPT !.pos = @ - 1])
          IN  /\ ~last.dg.some
              /\ crypto.csprng.pos >= 1
              /\ Len(last.buf) = Len(last.arg) + 28
              /\ last.buf = ExtendFromSlice(
                              EncryptInPlace(crypto.cipher, drawn, last.arg), drawn)
  /\ ( /\ last.op = "recv" /\ last.dg.some /\ last.dg.forged = "none"
       /\ last.dg.orig # last.dg.pt
       /\ last.dg.cipher = peers[last.h].crypto.cipher
       /\ Len(last.arg) >= Len(last.dg.data) )
       => /\ last.kind = "Ok"
          /\ last.buf = last.dg.pt
          /\ last.buf # last.dg.orig
          /\ Len(last.buf) = Len(last.dg.orig) + 28

\* a send failed in the transport step, send was called again on the same
\* buffer, and the correspondent received that datagram whole
C19_Witness ==
  /\ last.op = "recv" /\ last.dg.some /\ last.dg.forged = "none"
  /\ last.dg.orig = <<104, 105>> /\ Len(last.dg.pt) = 30
  /\ last.dg.cipher = peers[last.h].crypto.cipher
  /\ last.len = 58 /\ last.kind = "Ok" /\ Len(last.buf) = 30
  /\ peers[last.dg.h].crypto.csprng.pos = 2

\* C20: a recv whose transport step failed returns that error, leaves the
\* buffer as it was and does not call decrypt; a recv that left the buffer
\* shorter took a datagram.
C20_RecvFrame ==
  /\ (last.op = "recv" /\ ~last.dg.some)
       => /\ last.kind \in {"WouldBlock", "TimedOut", "Interrupted", "NotConnected"}
          /\ last.buf = last.arg
          /\ Len(last.buf) = Len(last.arg)
          /\ ~last.decrypted /\ ~last.cipherCalled
  /\ (last.op = "recv" /\ Len(last.buf) < Len(last.arg)) => last.dg.some

\* a recv into a 64-byte buffer was interrupted while a datagram was waiting
C20_Witness ==
  /\ last.op = "recv" /\ ~last.dg.some /\ last.kind = "Interrupted"
  /\ Len(last.arg) = 64 /\ last.buf = last.arg
  /\ sock[SocketOf(last.h)].rxq # << >>

\* C15: a string of 31 or 33 hex digits fails with InvalidLength, a string
\* with a character that is no hex digit fails with InvalidHex, and 32 hex
\* digits parse to their 16 bytes.
C15_KeyParseErrors ==
  last.op = "parse" =>
    LET hex == \A i \in 1..Len(last.arg) : HexVal(last.arg[i]) # -1
    IN  /\ (hex /\ Len(last.arg) \in {31, 33})
             => (last.kind # "Ok" /\ last.err = "InvalidLength")
        /\ ~hex => (last.kind # "Ok" /\ last.err = "InvalidHex")
        /\ (hex /\ Len(last.arg) = 32)
             => /\ last.kind = "Ok" /\ Len(last.buf) = 16
                /\ \A i \in 1..16 :
                     last.buf[i] = 16 * HexVal(last.arg[2 * i - 1]) + HexVal(last.arg[2 * i])

\* C16: can_retry holds exactly for would-block, timed-out and interrupted;
\* can_reconnect holds exactly for those and the eleven connection kinds;
\* neither holds for the kinds CryptoError and InvalidKeyError convert to.
C16_ErrorClassification ==
  last.op = "classify" =>
    /\ last.retry <=> last.kind \in {"WouldBlock", "TimedOut", "Interrupted"}
    /\ last.reconnect <=>
         \/ last.retry
         \/ last.kind \in {"ConnectionReset", "ConnectionAborted",
                           "ConnectionRefused", "NotConnected", "NetworkDown",
                           "AddrInUse", "AddrNotAvailable", "HostUnreachable",
                           "NetworkUnreachable", "BrokenPipe", "UnexpectedEof"}
    /\ last.err \in {"CryptoError", "InvalidKeyError"}
         => (~last.retry /\ ~last.reconnect)

\* an interrupted call was classified
C16_Witness ==
  /\ last.op = "classify" /\ last.kind = "Interrupted"
  /\ last.retry /\ last.reconnect

\* C17: remote_addr is the correspondent when there is one, and otherwise the
\* unspecified address, port 0, of the family of the local address; it is
\* unspecified exactly when there is no correspondent.
C17_RemoteAddrTotal ==
  /\ last.op = "remote_addr" =>
       /\ last.peer.some => last.addr = last.peer.addr
       /\ ~last.peer.some =>
            /\ last.addr.v = last.local.v /\ last.addr.port = 0
            /\ last.addr.ip = IF last.local.v = "V4" THEN "0.0.0.0" ELSE "::"
       /\ is_unspecified(last.addr) <=> ~last.peer.some
  /\ \A h \in Handles :
       /\ remote_addr_optional(h).some => remote_addr(h) = remote_addr_optional(h).addr
       /\ ~remote_addr_optional(h).some
            => remote_addr(h) = [v |-> local_addr(h).v, ip |-> "0.0.0.0", port |-> 0]
       /\ is_unspecified(remote_addr(h)) <=> ~remote_addr_optional(h).some

\* a peer bound on IPv6 without correspondent was asked for its remote
\* address, while peer 1 is disconnected after having been connected
C17_Witness ==
  /\ last.op = "remote_addr" /\ last.local.v = "V6" /\ ~last.peer.some
  /\ last.addr = [v |-> "V6", ip |-> "::", port |-> 0]
  /\ hist[Server].call = "disconnect"
  /\ remote_addr(Server) = SocketAddrV4("0.0.0.0", 0)

\* C21: every recv that takes a datagram takes the one at the head of the
\* socket's queue and removes it, whether or not it decrypts; and the recv
\* that follows a failed one on the same socket, through any handle, takes
\* the next datagram, which gives Ok and its plaintext when it is genuine,
\* under the receiver's key and fits the buffer.
C21_ConsumedNotRedelivered ==
  [][ /\ (last'.op = "recv" /\ last'.dg.some)
           => LET s == SocketOf(last'.h)
              IN  /\ sock[s].rxq # << >>
                  /\ last'.dg = Head(sock[s].rxq)
                  /\ sock'[s].rxq = Tail(sock[s].rxq)
                  /\ Len(sock'[s].rxq) = Len(sock[s].rxq) - 1
      /\ ( /\ last.op = "recv" /\ last.dg.some /\ last.kind = CryptoErrorKind
           /\ last'.op = "recv" /\ last'.dg.some
           /\ SocketOf(last'.h) = SocketOf(last.h)
           /\ last'.dg.forged = "none"
           /\ last'.dg.cipher = peers[last'.h].crypto.cipher
           /\ Len(last'.arg) >= Len(last'.dg.data) )
           => /\ last'.kind = "Ok"
              /\ last'.buf = last'.dg.pt
              /\ last'.dg = Head(sock[SocketOf(last.h)].rxq) ]_vars

\* a recv failed on a datagram that was changed or made without the key while
\* a genuine datagram of the correspondent waits behind it, on a socket that
\* has a second handle
C21_Witness ==
  /\ last.op = "recv" /\ last.dg.some /\ last.dg.forged # "none"
  /\ last.kind = CryptoErrorKind
  /\ LET q == sock[SocketOf(last.h)].rxq
     IN  /\ Len(q) = 1
         /\ q[1].forged = "none" /\ q[1].pt = <<104, 105>>
         /\ q[1].cipher = peers[last.h].crypto.cipher
         /\ Some(q[1].src) = last.peer
  /\ \E g \in Handles : g # last.h /\ SocketOf(g) = SocketOf(last.h)

====
